---- MODULE Spec2Model ----
(***************************************************************************)
(* Model of src/config.rs: the discovery configuration `Config` and its    *)
(* `ConfigBuilder`.  A builder is created by ConfigBuilder::new, mutated   *)
(* through `&mut self` setters and read out by build().  A panic unwinds   *)
(* out of the call and leaves the builder as it was at the panic, so a     *)
(* caller that catches the unwind can go on using the builder.             *)
(*                                                                         *)
(* Durations are whole seconds.  Option<T> is a sequence of length <= 1:  *)
(* None is << >> and Some(v) is <<v>>.                                     *)
(***************************************************************************)
EXTENDS Integers, Sequences, FiniteSets, TLC

VARIABLES
    config,      \* ConfigBuilder.config
    listen_arg,  \* the argument ConfigBuilder::new was called with
    calls,       \* the method calls made on the builder so far, in order:
                 \* name, arguments, and whether the call panicked
    returned,    \* what the most recent call returned: Some(Config) from a
                 \* successful build(), None otherwise
    budget       \* how many method calls the caller makes at most

vars == <<config, listen_arg, calls, returned, budget>>

(***************************************************************************)
(* Bounds and input domains.                                               *)
(***************************************************************************)
MaxCalls == 3
MaxDeepCalls == 5

None == << >>
Some(v) == <<v>>

MAX_NODES_PER_BUCKET == 16

QueryDurations == {1, 90}
Durations == {7}
OptDurations == {None}
Retries == {255}
Sizes == {4}
OptSizes == {None}
Mins == {1, 2, 3}
Limits == {8, 16, 17}
Enrs == {"enr_a", "enr_b"}
Filters == {[e \in Enrs |-> e = "enr_a"]}
DefaultRateLimiter == [total |-> <<10, 1>>, node |-> <<8, 1>>, ip |-> <<9, 1>>]
RateLimiters == {None}
DefaultPermitBanList == [permit |-> {}, ban |-> {}]
PermitBanLists == {[permit |-> {"10.0.0.1"}, ban |-> {"10.0.0.2"}]}
Executors == {"custom"}
TokioExecutor == "tokio"
Cidrs == {"10.0.0.0/8"}
ListenConfigs == {"Ipv4", "DualStack"}

(***************************************************************************)
(* How a call ends: it returns (leaving the builder as `self`, handing     *)
(* `ret` to the caller) or it panics (leaving the builder as `self`).      *)
(***************************************************************************)
Return(self, ret) == [panicked |-> FALSE, config |-> self, ret |-> ret]
Panic(self) == [panicked |-> TRUE, config |-> self, ret |-> None]

(***************************************************************************)
(* ConfigBuilder::new                                                      *)
(***************************************************************************)
\* Variant: the default incoming limit is half a bucket.
new_half_bucket(listen_config) ==
    [ enable_packet_filter     |-> FALSE,
      request_timeout          |-> 1,
      vote_duration            |-> 120,
      query_peer_timeout       |-> 2,
      query_timeout            |-> 60,
      request_retries          |-> 1,
      session_timeout          |-> 86400,
      session_cache_capacity   |-> 1000,
      enr_update               |-> TRUE,
      max_nodes_response       |-> 16,
      enr_peer_update_min      |-> 10,
      query_parallelism        |-> 3,
      ip_limit                 |-> FALSE,
      incoming_bucket_limit    |-> MAX_NODES_PER_BUCKET \div 2,
      table_filter             |-> [e \in Enrs |-> TRUE],
      ping_interval            |-> 300,
      report_discovered_peers  |-> TRUE,
      filter_rate_limiter      |-> Some(DefaultRateLimiter),
      filter_max_nodes_per_ip  |-> Some(10),
      filter_max_bans_per_ip   |-> Some(5),
      permit_ban_list          |-> DefaultPermitBanList,
      ban_duration             |-> Some(3600),
      auto_nat_listen_duration |-> Some(300),
      executor                 |-> None,
      listen_config            |-> listen_config,
      allowed_cidr             |-> None ]

new(listen_config) ==
    [ enable_packet_filter     |-> FALSE,
      request_timeout          |-> 1,
      vote_duration            |-> 120,
      query_peer_timeout       |-> 2,
      query_timeout            |-> 60,
      request_retries          |-> 1,
      session_timeout          |-> 86400,
      session_cache_capacity   |-> 1000,
      enr_update               |-> TRUE,
      max_nodes_response       |-> 16,
      enr_peer_update_min      |-> 10,
      query_parallelism        |-> 3,
      ip_limit                 |-> FALSE,
      incoming_bucket_limit    |-> MAX_NODES_PER_BUCKET,
      table_filter             |-> [e \in Enrs |-> TRUE],
      ping_interval            |-> 300,
      report_discovered_peers  |-> TRUE,
      filter_rate_limiter      |-> Some(DefaultRateLimiter),
      filter_max_nodes_per_ip  |-> Some(10),
      filter_max_bans_per_ip   |-> Some(5),
      permit_ban_list          |-> DefaultPermitBanList,
      ban_duration             |-> Some(3600),
      auto_nat_listen_duration |-> Some(300),
      executor                 |-> None,
      listen_config            |-> listen_config,
      allowed_cidr             |-> None ]

(***************************************************************************)
(* The setters, each as the function from the builder before the call to   *)
(* the way the call ends.                                                  *)
(***************************************************************************)
enable_packet_filter(self) ==
    Return([self EXCEPT !.enable_packet_filter = TRUE], None)

request_timeout(self, timeout) ==
    Return([self EXCEPT !.request_timeout = timeout], None)

vote_duration(self, duration) ==
    Return([self EXCEPT !.vote_duration = duration], None)

query_peer_timeout(self, timeout) ==
    Return([self EXCEPT !.query_peer_timeout = timeout], None)

\* Variant: the query timeout is kept above the per-peer timeout.
query_timeout_clamped(self, timeout) ==
    Return([self EXCEPT !.query_timeout =
                IF timeout > self.query_peer_timeout
                THEN timeout
                ELSE self.query_peer_timeout + 1], None)

query_timeout(self, timeout) ==
    Return([self EXCEPT !.query_timeout = timeout], None)

request_retries(self, retries) ==
    Return([self EXCEPT !.request_retries = retries], None)

session_timeout(self, timeout) ==
    Return([self EXCEPT !.session_timeout = timeout], None)

session_cache_capacity(self, capacity) ==
    Return([self EXCEPT !.session_cache_capacity = capacity], None)

disable_enr_update(self) ==
    Return([self EXCEPT !.enr_update = FALSE], None)

max_nodes_response(self, max) ==
    Return([self EXCEPT !.max_nodes_response = max], None)

\* Variant: the threshold check is off by one.
enr_peer_update_min_off_by_one(self, min) ==
    IF min < 1
    THEN Panic(self)
    ELSE Return([self EXCEPT !.enr_peer_update_min = min], None)

enr_peer_update_min(self, min) ==
    IF min < 2
    THEN Panic(self)
    ELSE Return([self EXCEPT !.enr_peer_update_min = min], None)

\* Variant: the value lands in the neighbouring field.
query_parallelism_wrong_field(self, parallelism) ==
    Return([self EXCEPT !.max_nodes_response = parallelism], None)

query_parallelism(self, parallelism) ==
    Return([self EXCEPT !.query_parallelism = parallelism], None)

ip_limit(self) ==
    Return([self EXCEPT !.ip_limit = TRUE], None)

\* Variant: the limit is checked by the setter.
incoming_bucket_limit_checked(self, limit) ==
    IF limit > MAX_NODES_PER_BUCKET
    THEN Panic(self)
    ELSE Return([self EXCEPT !.incoming_bucket_limit = limit], None)

incoming_bucket_limit(self, limit) ==
    Return([self EXCEPT !.incoming_bucket_limit = limit], None)

table_filter(self, filter) ==
    Return([self EXCEPT !.table_filter = filter], None)

ping_interval(self, interval) ==
    Return([self EXCEPT !.ping_interval = interval], None)

\* Variant: the flag setter also clears the neighbouring flag.
disable_report_discovered_peers_and_update(self) ==
    Return([self EXCEPT !.report_discovered_peers = FALSE,
                        !.enr_update = FALSE], None)

disable_report_discovered_peers(self) ==
    Return([self EXCEPT !.report_discovered_peers = FALSE], None)

filter_rate_limiter(self, rate_limiter) ==
    Return([self EXCEPT !.filter_rate_limiter = rate_limiter], None)

filter_max_nodes_per_ip(self, max_nodes_per_ip) ==
    Return([self EXCEPT !.filter_max_nodes_per_ip = max_nodes_per_ip], None)

filter_max_bans_per_ip(self, max_bans_per_ip) ==
    Return([self EXCEPT !.filter_max_bans_per_ip = max_bans_per_ip], None)

permit_ban_list(self, list) ==
    Return([self EXCEPT !.permit_ban_list = list], None)

ban_duration(self, duration) ==
    Return([self EXCEPT !.ban_duration = duration], None)

auto_nat_listen_duration(self, duration) ==
    Return([self EXCEPT !.auto_nat_listen_duration = duration], None)

executor(self, exec) ==
    Return([self EXCEPT !.executor = Some(exec)], None)

allowed_cidr(self, cidr) ==
    Return([self EXCEPT !.allowed_cidr = Some(cidr)], None)

\* Variant: the assertion is strict.
build_strict(self) ==
    LET filled == IF self.executor = None
                  THEN [self EXCEPT !.executor = Some(TokioExecutor)]
                  ELSE self
    IN  IF filled.incoming_bucket_limit < MAX_NODES_PER_BUCKET
        THEN Return(filled, Some(filled))
        ELSE Panic(filled)

\* Variant: the default executor is installed unconditionally.
build_default_executor(self) ==
    LET filled == [self EXCEPT !.executor = Some(TokioExecutor)]
    IN  IF filled.incoming_bucket_limit <= MAX_NODES_PER_BUCKET
        THEN Return(filled, Some(filled))
        ELSE Panic(filled)

(***************************************************************************)
(* ConfigBuilder::build: the executor is filled in first, then the         *)
(* assertion runs, then the configuration is cloned out.                   *)
(***************************************************************************)
build(self) ==
    LET filled == IF self.executor = None
                  THEN [self EXCEPT !.executor = Some(TokioExecutor)]
                  ELSE self
    IN  IF filled.incoming_bucket_limit <= MAX_NODES_PER_BUCKET
        THEN Return(filled, Some(filled))
        ELSE Panic(filled)

(***************************************************************************)
(* Method dispatch: the call `call` made on the builder `self`.            *)
(***************************************************************************)
Apply(self, call) ==
    LET a == call.args IN
    CASE call.op = "enable_packet_filter" -> enable_packet_filter(self)
      [] call.op = "request_timeout" -> request_timeout(self, a[1])
      [] call.op = "vote_duration" -> vote_duration(self, a[1])
      [] call.op = "query_peer_timeout" -> query_peer_timeout(self, a[1])
      [] call.op = "query_timeout" -> query_timeout(self, a[1])
      [] call.op = "request_retries" -> request_retries(self, a[1])
      [] call.op = "session_timeout" -> session_timeout(self, a[1])
      [] call.op = "session_cache_capacity" -> session_cache_capacity(self, a[1])
      [] call.op = "disable_enr_update" -> disable_enr_update(self)
      [] call.op = "max_nodes_response" -> max_nodes_response(self, a[1])
      [] call.op = "enr_peer_update_min" -> enr_peer_update_min(self, a[1])
      [] call.op = "query_parallelism" -> query_parallelism(self, a[1])
      [] call.op = "ip_limit" -> ip_limit(self)
      [] call.op = "incoming_bucket_limit" -> incoming_bucket_limit(self, a[1])
      [] call.op = "table_filter" -> table_filter(self, a[1])
      [] call.op = "ping_interval" -> ping_interval(self, a[1])
      [] call.op = "disable_report_discovered_peers" ->
             disable_report_discovered_peers(self)
      [] call.op = "filter_rate_limiter" -> filter_rate_limiter(self, a[1])
      [] call.op = "filter_max_nodes_per_ip" -> filter_max_nodes_per_ip(self, a[1])
      [] call.op = "filter_max_bans_per_ip" -> filter_max_bans_per_ip(self, a[1])
      [] call.op = "permit_ban_list" -> permit_ban_list(self, a[1])
      [] call.op = "ban_duration" -> ban_duration(self, a[1])
      [] call.op = "auto_nat_listen_duration" ->
             auto_nat_listen_duration(self, a[1])
      [] call.op = "executor" -> executor(self, a[1])
      [] call.op = "allowed_cidr" -> allowed_cidr(self, a[1])
      [] call.op = "build" -> build(self)

(***************************************************************************)
(* The state machine: one builder, and a caller making up to `budget`      *)
(* method calls on it.                                                     *)
(***************************************************************************)
Construct(max) ==
    /\ listen_arg \in ListenConfigs
    /\ config = new(listen_arg)
    /\ calls = << >>
    /\ returned = None
    /\ budget = max

Init == Construct(MaxCalls)

Invoke(op, args) ==
    LET out == Apply(config, [op |-> op, args |-> args]) IN
    /\ config' = out.config
    /\ calls' = Append(calls, [op |-> op, args |-> args, panicked |-> out.panicked])
    /\ returned' = out.ret
    /\ UNCHANGED <<listen_arg, budget>>

Call_enable_packet_filter ==
    /\ Len(calls) < budget
    /\ Invoke("enable_packet_filter", << >>)
Call_request_timeout(timeout) ==
    /\ Len(calls) < budget
    /\ Invoke("request_timeout", <<timeout>>)
Call_vote_duration(duration) ==
    /\ Len(calls) < budget
    /\ Invoke("vote_duration", <<duration>>)
Call_query_peer_timeout(timeout) ==
    /\ Len(calls) < budget
    /\ Invoke("query_peer_timeout", <<timeout>>)
Call_query_timeout(timeout) ==
    /\ Len(calls) < budget
    /\ Invoke("query_timeout", <<timeout>>)
Call_request_retries(retries) ==
    /\ Len(calls) < budget
    /\ Invoke("request_retries", <<retries>>)
Call_session_timeout(timeout) ==
    /\ Len(calls) < budget
    /\ Invoke("session_timeout", <<timeout>>)
Call_session_cache_capacity(capacity) ==
    /\ Len(calls) < budget
    /\ Invoke("session_cache_capacity", <<capacity>>)
Call_disable_enr_update ==
    /\ Len(calls) < budget
    /\ Invoke("disable_enr_update", << >>)
Call_max_nodes_response(max) ==
    /\ Len(calls) < budget
    /\ Invoke("max_nodes_response", <<max>>)
Call_enr_peer_update_min(min) ==
    /\ Len(calls) < budget
    /\ Invoke("enr_peer_update_min", <<min>>)
Call_query_parallelism(parallelism) ==
    /\ Len(calls) < budget
    /\ Invoke("query_parallelism", <<parallelism>>)
Call_ip_limit ==
    /\ Len(calls) < budget
    /\ Invoke("ip_limit", << >>)
Call_incoming_bucket_limit(limit) ==
    /\ Len(calls) < budget
    /\ Invoke("incoming_bucket_limit", <<limit>>)
Call_table_filter(filter) ==
    /\ Len(calls) < budget
    /\ Invoke("table_filter", <<filter>>)
Call_ping_interval(interval) ==
    /\ Len(calls) < budget
    /\ Invoke("ping_interval", <<interval>>)
Call_disable_report_discovered_peers ==
    /\ Len(calls) < budget
    /\ Invoke("disable_report_discovered_peers", << >>)
Call_filter_rate_limiter(rate_limiter) ==
    /\ Len(calls) < budget
    /\ Invoke("filter_rate_limiter", <<rate_limiter>>)
Call_filter_max_nodes_per_ip(max_nodes_per_ip) ==
    /\ Len(calls) < budget
    /\ Invoke("filter_max_nodes_per_ip", <<max_nodes_per_ip>>)
Call_filter_max_bans_per_ip(max_bans_per_ip) ==
    /\ Len(calls) < budget
    /\ Invoke("filter_max_bans_per_ip", <<max_bans_per_ip>>)
Call_permit_ban_list(list) ==
    /\ Len(calls) < budget
    /\ Invoke("permit_ban_list", <<list>>)
Call_ban_duration(duration) ==
    /\ Len(calls) < budget
    /\ Invoke("ban_duration", <<duration>>)
Call_auto_nat_listen_duration(duration) ==
    /\ Len(calls) < budget
    /\ Invoke("auto_nat_listen_duration", <<duration>>)
Call_executor(exec) ==
    /\ Len(calls) < budget
    /\ Invoke("executor", <<exec>>)
Call_allowed_cidr(cidr) ==
    /\ Len(calls) < budget
    /\ Invoke("allowed_cidr", <<cidr>>)
Call_build ==
    /\ Len(calls) < budget
    /\ Invoke("build", << >>)

Next ==
    \/ Call_enable_packet_filter
    \/ \E t \in Durations : Call_request_timeout(t)
    \/ \E t \in Durations : Call_vote_duration(t)
    \/ \E t \in QueryDurations : Call_query_peer_timeout(t)
    \/ \E t \in QueryDurations : Call_query_timeout(t)
    \/ \E n \in Retries : Call_request_retries(n)
    \/ \E t \in Durations : Call_session_timeout(t)
    \/ \E n \in Sizes : Call_session_cache_capacity(n)
    \/ Call_disable_enr_update
    \/ \E n \in Sizes : Call_max_nodes_response(n)
    \/ \E n \in Mins : Call_enr_peer_update_min(n)
    \/ \E n \in Sizes : Call_query_parallelism(n)
    \/ Call_ip_limit
    \/ \E n \in Limits : Call_incoming_bucket_limit(n)
    \/ \E f \in Filters : Call_table_filter(f)
    \/ \E t \in Durations : Call_ping_interval(t)
    \/ Call_disable_report_discovered_peers
    \/ \E r \in RateLimiters : Call_filter_rate_limiter(r)
    \/ \E n \in OptSizes : Call_filter_max_nodes_per_ip(n)
    \/ \E n \in OptSizes : Call_filter_max_bans_per_ip(n)
    \/ \E l \in PermitBanLists : Call_permit_ban_list(l)
    \/ \E t \in OptDurations : Call_ban_duration(t)
    \/ \E t \in OptDurations : Call_auto_nat_listen_duration(t)
    \/ \E e \in Executors : Call_executor(e)
    \/ \E c \in Cidrs : Call_allowed_cidr(c)
    \/ Call_build

Spec == Init /\ [][Next]_vars

(***************************************************************************)
(* A caller that makes longer call sequences over the methods the          *)
(* incoming-bucket-limit check involves.                                   *)
(***************************************************************************)
InitDeep == Construct(MaxDeepCalls)

NextDeep ==
    \/ \E t \in Durations : Call_request_timeout(t)
    \/ \E n \in Limits : Call_incoming_bucket_limit(n)
    \/ \E e \in Executors : Call_executor(e)
    \/ Call_build

SpecDeep == InitDeep /\ [][NextDeep]_vars

(***************************************************************************)
(* Vocabulary of the properties.                                           *)
(***************************************************************************)
SetterNames ==
    { "enable_packet_filter", "request_timeout", "vote_duration",
      "query_peer_timeout", "query_timeout", "request_retries",
      "session_timeout", "session_cache_capacity", "disable_enr_update",
      "max_nodes_response", "enr_peer_update_min", "query_parallelism",
      "ip_limit", "incoming_bucket_limit", "table_filter", "ping_interval",
      "disable_report_discovered_peers", "filter_rate_limiter",
      "filter_max_nodes_per_ip", "filter_max_bans_per_ip", "permit_ban_list",
      "ban_duration", "auto_nat_listen_duration", "executor", "allowed_cidr" }

FlagSetters ==
    { "enable_packet_filter", "disable_enr_update", "ip_limit",
      "disable_report_discovered_peers" }

ValueSetters == SetterNames \ FlagSetters

Fields == DOMAIN config

\* The Config field a setter names.
FieldOf(op) ==
    CASE op = "disable_enr_update" -> "enr_update"
      [] op = "disable_report_discovered_peers" -> "report_discovered_peers"
      [] OTHER -> op

\* The field value a setter call with arguments `args` asks for.  executor(..)
\* and allowed_cidr(..) take a bare value for an Option field.
Stored(op, args) ==
    CASE op \in {"enable_packet_filter", "ip_limit"} -> TRUE
      [] op \in {"disable_enr_update", "disable_report_discovered_peers"} -> FALSE
      [] op \in {"executor", "allowed_cidr"} -> Some(args[1])
      [] OTHER -> args[1]

Last == calls[Len(calls)]

\* In a step: the call made by the step is `op`.
IsCall(op) == Len(calls') = Len(calls) + 1 /\ calls'[Len(calls')].op = op

Accepted(i) == calls[i].op \in SetterNames /\ ~calls[i].panicked

\* The positions of the accepted calls of setter `op`.
AcceptedAt(op) == {i \in 1..Len(calls) : calls[i].op = op /\ ~calls[i].panicked}

NeverSet(op) == AcceptedAt(op) = {}

\* The arguments of the most recent accepted call of setter `op`.
LastArgs(op) ==
    LET I == AcceptedAt(op) IN calls[CHOOSE i \in I : \A j \in I : j <= i].args

\* The value of the most recent accepted call of `op`, or `default`.
LastVal(op, default) == IF NeverSet(op) THEN default ELSE LastArgs(op)[1]

\* The outcome of the last call of the non-empty call sequence `cs` made on
\* the builder `self`.
RECURSIVE Run(_, _)
Run(self, cs) ==
    IF Len(cs) = 1
    THEN Apply(self, cs[1])
    ELSE Run(Apply(self, cs[1]).config, Tail(cs))

\* `cs` with the calls at positions i and i+1 exchanged.
Swap(cs, i) ==
    [k \in 1..Len(cs) |-> IF k = i THEN cs[i + 1] ELSE IF k = i + 1 THEN cs[i] ELSE cs[k]]

(***************************************************************************)
(* C1.  build() returns a Config if and only if the builder's current      *)
(* incoming_bucket_limit is <= MAX_NODES_PER_BUCKET (16); otherwise it     *)
(* panics and returns nothing.  So every Config returned by build() has    *)
(* incoming_bucket_limit <= 16.                                            *)
(***************************************************************************)
C1_BuildIffLimitInRange ==
    [][ IsCall("build") =>
          /\ (returned' # None) <=> (config.incoming_bucket_limit <= 16)
          /\ calls'[Len(calls')].panicked <=> (config.incoming_bucket_limit > 16)
          /\ returned' # None => returned'[1].incoming_bucket_limit <= 16 ]_vars

C1_Witness ==
    /\ Len(calls) >= 3
    /\ Last.op = "build" /\ Last.panicked /\ returned = None
    /\ \E i \in 1..Len(calls) : calls[i].op = "build" /\ ~calls[i].panicked

(***************************************************************************)
(* C2.  enr_peer_update_min(min) with min < 2 panics without storing min,  *)
(* so every Config returned by build() has enr_peer_update_min >= 2.       *)
(***************************************************************************)
C2_UpdateMinAtLeastTwo ==
    [][ /\ (IsCall("enr_peer_update_min") /\ calls'[Len(calls')].args[1] < 2) =>
              /\ calls'[Len(calls')].panicked
              /\ config'.enr_peer_update_min = config.enr_peer_update_min
        /\ returned' # None => returned'[1].enr_peer_update_min >= 2 ]_vars

C2_Witness ==
    /\ returned # None
    /\ \E i \in 1..Len(calls) :
          /\ calls[i].op = "enr_peer_update_min"
          /\ calls[i].args[1] < 2
          /\ calls[i].panicked

(***************************************************************************)
(* C3 as stated: every Config returned by build() has                      *)
(* query_peer_timeout < query_timeout, whatever the setter calls were.     *)
(***************************************************************************)
C3_PeerTimeoutBelowQueryTimeout ==
    returned # None => returned[1].query_peer_timeout < returned[1].query_timeout

(***************************************************************************)
(* C3 amended.  A Config returned by build() carries the two timeouts as   *)
(* last set (2 s and 60 s where never set), unchecked: it has              *)
(* query_peer_timeout < query_timeout exactly when those values do, and    *)
(* in particular when neither setter was called.                           *)
(***************************************************************************)
C3_TimeoutsAsLastSet ==
    returned # None =>
        LET peer == LastVal("query_peer_timeout", 2)
            whole == LastVal("query_timeout", 60)
        IN  /\ returned[1].query_peer_timeout = peer
            /\ returned[1].query_timeout = whole
            /\ (returned[1].query_peer_timeout < returned[1].query_timeout)
                   <=> (peer < whole)
            /\ (NeverSet("query_peer_timeout") /\ NeverSet("query_timeout"))
                   => returned[1].query_peer_timeout < returned[1].query_timeout

C3_Witness ==
    /\ returned # None
    /\ Len(calls) >= 2
    /\ NeverSet("query_peer_timeout") /\ NeverSet("query_timeout")

C5_DefaultLimitIsHalfBucket ==
    (returned # None /\ NeverSet("incoming_bucket_limit")) =>
        returned[1].incoming_bucket_limit = 8

(***************************************************************************)
(* C6.  After an accepted call of a value-taking setter the field it names *)
(* holds the value passed, whatever was called before; the Config returned *)
(* by a later successful build() holds, for every such setter, the value   *)
(* of its most recent accepted call; repeating a call with the same value  *)
(* changes nothing; and two adjacent accepted setter calls for different   *)
(* fields can be exchanged without changing the outcome.                   *)
(***************************************************************************)
C6_FieldHoldsValue ==
    (Len(calls) >= 1 /\ Last.op \in ValueSetters /\ ~Last.panicked) =>
        config[FieldOf(Last.op)] = Stored(Last.op, Last.args)

C6_BuiltHoldsLastValues ==
    returned # None =>
        \A op \in ValueSetters :
            ~NeverSet(op) => returned[1][FieldOf(op)] = Stored(op, LastArgs(op))

C6_Idempotent ==
    LET n == Len(calls) IN
    (/\ n >= 2
     /\ calls[n].op \in ValueSetters /\ ~calls[n].panicked
     /\ calls[n - 1].op = calls[n].op /\ ~calls[n - 1].panicked
     /\ calls[n - 1].args = calls[n].args) =>
        config = Run(new(listen_arg), SubSeq(calls, 1, n - 1)).config

C6_Commute ==
    \A i \in 1..(Len(calls) - 1) :
        (Accepted(i) /\ Accepted(i + 1) /\ calls[i].op # calls[i + 1].op) =>
            LET other == Run(new(listen_arg), Swap(calls, i)) IN
            /\ other.config = config
            /\ other.ret = returned

\* C6: the four parts together.
C6_SettersStoreLastValue ==
    /\ C6_FieldHoldsValue
    /\ C6_BuiltHoldsLastValues
    /\ C6_Idempotent
    /\ C6_Commute

C6_Witness ==
    /\ Len(calls) >= 3
    /\ returned # None
    /\ Accepted(1) /\ Accepted(2)
    /\ calls[1].op = calls[2].op /\ calls[1].op \in ValueSetters
    /\ calls[1].args # calls[2].args

\* Two accepted calls of different setters, then a successful build().
C6_WitnessCommute ==
    /\ Len(calls) >= 3
    /\ returned # None
    /\ Accepted(1) /\ Accepted(2)
    /\ calls[1].op # calls[2].op

(***************************************************************************)
(* C7.  Every setter call, the flag setters and the rejected               *)
(* enr_peer_update_min(min < 2) included, leaves every Config field other  *)
(* than the one the setter names unchanged.                                *)
(***************************************************************************)
C7_SettersChangeOneField ==
    [][ \A op \in SetterNames :
            IsCall(op) =>
                \A f \in Fields \ {FieldOf(op)} : config'[f] = config[f] ]_vars

C7_Witness ==
    /\ Len(calls) >= 3
    /\ calls[1].op \in ValueSetters /\ ~calls[1].panicked
    /\ calls[2].op \in FlagSetters
    /\ calls[3].op = "enr_peer_update_min" /\ calls[3].panicked
    /\ config.enr_peer_update_min = 10

(***************************************************************************)
(* C8.  build() leaves the builder with an executor: the default one if    *)
(* none was supplied, the supplied one otherwise.  It changes no other     *)
(* field, so a build() right after a successful build() succeeds and       *)
(* returns the same configuration.                                         *)
(***************************************************************************)
C8_BuildSetsOnlyExecutor ==
    [][ IsCall("build") =>
          /\ config'.executor # None
          /\ config.executor = None => config'.executor = Some(TokioExecutor)
          /\ config.executor # None => config'.executor = config.executor
          /\ \A f \in Fields \ {"executor"} : config'[f] = config[f]
          /\ (Len(calls) >= 1 /\ Last.op = "build" /\ ~Last.panicked) =>
                 /\ returned' # None
                 /\ returned' = returned ]_vars

C8_Witness ==
    LET n == Len(calls) IN
    /\ n >= 3
    /\ calls[n - 2].op = "executor"
    /\ calls[n - 1].op = "build" /\ ~calls[n - 1].panicked
    /\ calls[n].op = "build" /\ returned # None
    /\ returned[1].executor = Some(calls[n - 2].args[1])

(***************************************************************************)
(* C9.  The incoming-bucket-limit check is made by build() alone, on the   *)
(* value current at that call: incoming_bucket_limit(limit) never fails;   *)
(* build() succeeds whenever the current limit is <= 16, whatever the      *)
(* limit was before; a build() rejected for a limit > 16 changes no        *)
(* builder field but the executor; and a Config built afterwards holds     *)
(* every value set before.                                                 *)
(***************************************************************************)
\* A built Config holds the value of the most recent accepted call of every
\* setter that was called.
C9_ValuesIntact ==
    returned # None =>
        \A op \in SetterNames :
            ~NeverSet(op) => returned[1][FieldOf(op)] = Stored(op, LastArgs(op))

\* C9: the check is made at build() only, and earlier values survive a
\* rejected build().
C9_LimitCheckedAtBuildOnly ==
    [][ /\ IsCall("incoming_bucket_limit") =>
              /\ ~calls'[Len(calls')].panicked
              /\ config'.incoming_bucket_limit = calls'[Len(calls')].args[1]
        /\ (IsCall("build") /\ config.incoming_bucket_limit <= 16) =>
              /\ ~calls'[Len(calls')].panicked
              /\ returned' # None
        /\ (IsCall("build") /\ config.incoming_bucket_limit > 16) =>
              /\ calls'[Len(calls')].panicked
              /\ \A f \in Fields \ {"executor"} : config'[f] = config[f]
        /\ C9_ValuesIntact' ]_vars

C9_Witness ==
    /\ Len(calls) >= 5
    /\ \E i, j, k \in 1..Len(calls) :
          /\ i < j /\ j + 1 < k
          /\ calls[i].op = "request_timeout" /\ ~calls[i].panicked
          /\ calls[j].op = "incoming_bucket_limit" /\ calls[j].args[1] > 16
          /\ calls[j + 1].op = "build" /\ calls[j + 1].panicked
          /\ calls[k].op = "incoming_bucket_limit" /\ calls[k].args[1] <= 16
          /\ NeverSet("executor")
    /\ Last.op = "build" /\ returned # None
    /\ returned[1].request_timeout = LastArgs("request_timeout")[1]
    /\ returned[1].executor = Some(TokioExecutor)

====
